---- MODULE Spec2Model ----
(***************************************************************************)
(* Model of the Twitter marketing bot: RTCleaner (src/src/types.ts, the    *)
(* class at lines 303-645 and main at 647-672) and TelegramService         *)
(* (src/unnamed/part_000).                                                 *)
(*                                                                         *)
(* Time is counted in whole hours.  Texts are sequences of one-character   *)
(* strings.  An optional value (string | undefined) is <<>> when missing   *)
(* and <<v>> when present.                                                 *)
(*                                                                         *)
(* Every await of the code is a separate step; what runs between two       *)
(* awaits runs to completion in one step (the JavaScript event loop).      *)
(* File-system writes, renames and unlinks are taken to succeed; reading   *)
(* or parsing the sent-state file may fail.                                *)
(***************************************************************************)
EXTENDS Integers, Sequences, FiniteSets, TLC

----------------------------------------------------------------------------
(* Bounds *)

NumChats == 2        \* chat ids the notification channel knows of
MaxTime == 7         \* last hour of the clock
MaxCycles == 2       \* scheduler callbacks that may be in flight together
MaxFileLen == 3      \* entries of a sent-state file found at start
MaxArchives == 6     \* archive files found at start
MaxTextLen == 102    \* longest text handed to the formatter
MaxGap == 2          \* longest run of blanks in a text handed to the classifier
MaxHandle == 3       \* longest handle in a text handed to the classifier
MaxRecords == 25     \* records of the largest table a delete stage finds

----------------------------------------------------------------------------
(* Texts *)

Whitespace == {" "}
WordChars == {"a", "b", "d", "e", "g", "h", "i", "k", "l", "n", "o", "p", "r",
              "s", "t", "w", "y", "R", "T", "_", "1"}

ToLower(ch) == IF ch = "R" THEN "r" ELSE IF ch = "T" THEN "t" ELSE ch

ToLowerCase(s) == [i \in 1..Len(s) |-> ToLower(s[i])]

Some(v) == <<v>>
Undefined == <<>>

\* String.prototype.trim
Trim(s) ==
  LET keep == {i \in 1..Len(s) : s[i] \notin Whitespace}
      Min(S) == CHOOSE x \in S : \A y \in S : x <= y
      Max(S) == CHOOSE x \in S : \A y \in S : x >= y
  IN IF keep = {} THEN <<>> ELSE SubSeq(s, Min(keep), Max(keep))

\* String.prototype.includes
Includes(s, sub) ==
  \E i \in 1..(Len(s) - Len(sub) + 1) : SubSeq(s, i, i + Len(sub) - 1) = sub

AllIn(s, from, to, chars) == \A i \in from..to : s[i] \in chars

\* the prefix "RT" under the i flag
StartsRT(s) == Len(s) >= 2 /\ ToLower(s[1]) = "r" /\ ToLower(s[2]) = "t"

\* /^RT\s*@\w+:/i
RtColon(s) ==
  /\ StartsRT(s)
  /\ \E at \in 3..Len(s) : \E col \in (at + 2)..Len(s) :
        /\ AllIn(s, 3, at - 1, Whitespace)
        /\ s[at] = "@"
        /\ AllIn(s, at + 1, col - 1, WordChars)
        /\ s[col] = ":"

\* /^RT\s+@\w+\s*:/i
RtSpacedColon(s) ==
  /\ StartsRT(s)
  /\ \E at \in 4..Len(s) : \E w \in (at + 1)..Len(s) : \E col \in (w + 1)..Len(s) :
        /\ AllIn(s, 3, at - 1, Whitespace)
        /\ s[at] = "@"
        /\ AllIn(s, at + 1, w, WordChars)
        /\ AllIn(s, w + 1, col - 1, Whitespace)
        /\ s[col] = ":"

\* /^RT\s*@\w+\s+/i
RtNoColon(s) ==
  /\ StartsRT(s)
  /\ \E at \in 3..Len(s) : \E sp \in (at + 2)..Len(s) :
        /\ AllIn(s, 3, at - 1, Whitespace)
        /\ s[at] = "@"
        /\ AllIn(s, at + 1, sp - 1, WordChars)
        /\ s[sp] \in Whitespace

\* the patterns without the two that need no colon
rtPatterns_colon(s) == RtColon(s) \/ RtSpacedColon(s)

\* rtPatterns: the eight expressions all carry the i flag, so they are three
\* distinct patterns
rtPatterns(s) == RtColon(s) \/ RtSpacedColon(s) \/ RtNoColon(s)

isRetweet(text) ==
  IF text = Undefined \/ text = Some(<<>>) THEN FALSE
  ELSE rtPatterns(Trim(text[1]))

\* /^@\w+/i and /^@[\w_]+/i
MentionStart(s) == Len(s) >= 2 /\ s[1] = "@" /\ s[2] \in WordChars

\* /^@\w+\s/i and /^@[\w_]+\s/i
MentionSpace(s) ==
  /\ Len(s) >= 3 /\ s[1] = "@"
  /\ \E sp \in 3..Len(s) : AllIn(s, 2, sp - 1, WordChars) /\ s[sp] \in Whitespace

replyPatterns(s) == MentionStart(s) \/ MentionSpace(s)

replyIndicators ==
  { <<"r", "e", "p", "l", "y", "i", "n", "g", " ", "t", "o">>,
    <<"i", "n", " ", "r", "e", "p", "l", "y", " ", "t", "o">>,
    <<"r", "e", "s", "p", "o", "n", "d", "i", "n", "g", " ", "t", "o">> }

isReplyBody(cleanText) ==
  \/ replyPatterns(cleanText)
  \/ \E ind \in replyIndicators : Includes(ToLowerCase(cleanText), ind)

isReply(text) ==
  IF text = Undefined \/ text = Some(<<>>) THEN FALSE
  ELSE isReplyBody(Trim(text[1]))

\* `text` as a JavaScript condition
Truthy(text) == text # Undefined /\ text # Some(<<>>)

----------------------------------------------------------------------------
(* Program constants *)

RetentionHours == 6      \* 6 * 60 * 60 * 1000 ms
MiB == 1048576           \* 1024 * 1024
RotateMB == 10           \* fileSizeMB > 10
ArchiveKeep == 5         \* files.slice(5)
batchSize == 10
maxLength == 100         \* truncateText(tweet.Text || '', 100)

----------------------------------------------------------------------------
(* The record store and the notification channel *)

T_rt == <<"R", "T", " ", "@", "a", ":", " ", "h", "i">>
T_reply == <<"@", "b", " ", "t", "h", "a", "n", "k", "s">>
T_plain == <<"h", "e", "l", "l", "o", " ", "w", "o", "r", "l", "d">>
T_both == <<"r", "t", " ", "@", "a", " ", "i", "n", " ", "r", "e", "p", "l",
            "y", " ", "t", "o", " ", "@", "b">>
T_late == <<"h", "i">>

\* record id |-> the record's Text field; a larger id was created later
TextOf == <<Some(T_rt), Some(T_reply), Some(T_plain), Some(T_both),
            Undefined, Some(<<>>), Some(T_late)>>

Records == 1..Len(TextOf)

\* record.get('Text'); the records beyond those of TextOf are more retweets
Text(r) == IF r \in Records THEN TextOf[r] ELSE Some(T_rt)
Chats == 1..NumChats
Slots == 1..MaxCycles

Range(s) == {s[i] : i \in 1..Len(s)}

RECURSIVE SortAsc(_)
SortAsc(S) ==
  IF S = {} THEN <<>>
  ELSE LET m == CHOOSE x \in S : \A y \in S : x <= y
       IN <<m>> \o SortAsc(S \ {m})

Reverse(s) == [i \in 1..Len(s) |-> s[Len(s) + 1 - i]]

\* table.select({sort: [{field: 'CreatedAt', direction: 'desc'}]}).all()
SelectSorted(st) == Reverse(SortAsc(st))

\* table.select({fields}).all(): the store's own order, here by creation
SelectPlain(st) == SortAsc(st)

----------------------------------------------------------------------------
(* State *)

VARIABLES
  envOk,          \* the three AIRTABLE_* variables are set
  token,          \* TELEGRAM_BOT_TOKEN is set
  manualChatIds,  \* the ids parsed from TELEGRAM_CHAT_IDS
  now,            \* the clock, in hours
  mainPc,         \* "new", "manual", "armed", "exit1"
  sentTweetsFile, \* sent-tweets.json
  archives,       \* the sent-tweets-<timestamp>.json files: [name, data], the name being the timestamp
  sentTweets,     \* RTCleaner.sentTweets
  chatIds,        \* TelegramService.chatIds
  botInit,        \* initializeBot: "none", "getMe", "getUpdates", "done"
  listening,      \* setupMessageListeners has run
  store,          \* ids of the records in the table
  cpc,            \* per cycle: "idle", "n_select", "n_getUpdates", "n_send", "d_select", "d_destroy"
  records,        \* per cycle: the result of its latest table.select
  newTweets,      \* per cycle: sendNewTweets' newTweets
  pending,        \* per cycle: chats whose sendMessage has not settled
  allRecordsToDelete, \* per cycle
  delIdx,         \* per cycle: the loop variable i
  deletedCount,   \* per cycle; after the cycle, the count its last line logged
  \* history variables
  loaded,         \* ids the constructor's load put into sentTweets
  markedAt,       \* id |-> hour of the latest mark (or of the loaded entry), NoTime if none
  dispatched,     \* id |-> number of fan-outs whose message held the record (stops at 2)
  markedUnsent,   \* ids marked sent by a cycle that skipped the fan-out
  overlapped,     \* two cycles have been in progress together
  forbiddenSince, \* chats a send to which returned 403 and that were not observed since
  fanned,         \* per cycle: the chats its fan-out in flight was started for
  \* the formatter and the classifier taken alone
  tweetText,      \* tweet.Text of the tweet handed to formatTweetMessage, or the
                  \* Text field of the record handed to the filters
  rendered,       \* its entry of the message: <<>> before the call
  category        \* the list the filters put the record in: "none" before

cfgVars == <<envOk, token, manualChatIds>>
fileVars == <<sentTweetsFile, archives>>
botVars == <<botInit, listening>>
cycVars == <<cpc, records, newTweets, pending, allRecordsToDelete, delIdx, deletedCount>>
histVars == <<loaded, markedAt, dispatched, markedUnsent, overlapped, forbiddenSince,
             fanned>>
fmtVars == <<tweetText, rendered, category>>
vars == <<cfgVars, now, mainPc, fileVars, sentTweets, chatIds, botVars, store,
          cycVars, histVars, fmtVars>>

NoTime == 0 - 1000
NoFile == [exists |-> FALSE, parses |-> FALSE, entries |-> <<>>, size |-> 0]

----------------------------------------------------------------------------
(* SentTweetTracker persistence *)

\* a save that misses the last id of the set
SavedEntries_short(set, t) ==
  LET all == [i \in 1..(Cardinality(set) - 1) |-> [recordId |-> SortAsc(set)[i], sentAt |-> t]]
  IN SelectSeq(all, LAMBDA tweet : tweet.sentAt > t - RetentionHours)

\* saveSentTweets: every id of the set, stamped with the time of writing
SavedEntries(set, t) ==
  LET all == [i \in 1..Cardinality(set) |-> [recordId |-> SortAsc(set)[i], sentAt |-> t]]
  IN SelectSeq(all, LAMBDA tweet : tweet.sentAt > t - RetentionHours)

\* a save whose retention filter is turned around
saveSentTweets_old(set, t) ==
  LET all == [i \in 1..Cardinality(set) |-> [recordId |-> SortAsc(set)[i], sentAt |-> t]]
      recentData == SelectSeq(all, LAMBDA tweet : tweet.sentAt < t - RetentionHours)
  IN [exists |-> TRUE, parses |-> TRUE, entries |-> recentData,
      size |-> 2 + 70 * Len(recentData)]

saveSentTweets(set, t) ==
  LET recentData == SavedEntries(set, t)
  IN [exists |-> TRUE, parses |-> TRUE, entries |-> recentData,
      size |-> 2 + 70 * Len(recentData)]

\* a cleanup that forgets to reverse and so keeps the oldest archives
KeepRecent_oldest(arch) ==
  LET files == SortAsc({a.name : a \in arch})
      kept == {files[i] : i \in 1..(IF Len(files) < ArchiveKeep THEN Len(files)
                                     ELSE ArchiveKeep)}
  IN {a \in arch : a.name \in kept}

\* the archive cleanup of rotateSentTweetsFile: sort, reverse, unlink slice(5)
KeepRecent(arch) ==
  LET files == Reverse(SortAsc({a.name : a \in arch}))
      kept == {files[i] : i \in 1..(IF Len(files) < ArchiveKeep THEN Len(files)
                                     ELSE ArchiveKeep)}
  IN {a \in arch : a.name \in kept}

\* rotateSentTweetsFile: rename to the archive named by the time (an archive of
\* that name is replaced), then clean up
rotateSentTweetsFile(file, arch, t) ==
  KeepRecent({a \in arch : a.name # t} \cup {[name |-> t, data |-> file]})

\* a retention filter that keeps the entry that is exactly six hours old
validTweets_inclusive(entries, t) ==
  SelectSeq(entries, LAMBDA tweet : tweet.sentAt >= t - RetentionHours)

validTweets(entries, t) ==
  SelectSeq(entries, LAMBDA tweet : tweet.sentAt > t - RetentionHours)

\* a test that also holds when exactly half of the entries were removed
mostRemoved_orHalf(nValid, nAll) == 2 * nValid <= nAll

\* line 350: validTweets.length < sentTweets.length * 0.5
mostRemoved(nValid, nAll) == 2 * nValid < nAll

\* a load without its try/catch: a file that cannot be read or parsed throws
loadSentTweets_nocatch(file, arch, set, t) ==
  IF ~file.exists THEN [file |-> file, arch |-> arch, set |-> set, threw |-> FALSE]
  ELSE
    LET rotate == file.size > RotateMB * MiB
        arch1 == IF rotate THEN rotateSentTweetsFile(file, arch, t) ELSE arch
        file1 == IF rotate THEN NoFile ELSE file
    IN IF ~file1.exists \/ ~file1.parses
       THEN [file |-> file1, arch |-> arch1, set |-> set, threw |-> TRUE]
       ELSE
         LET valid == validTweets(file1.entries, t)
             ids == {valid[i].recordId : i \in 1..Len(valid)}
         IN [file |-> file1, arch |-> arch1, set |-> ids, threw |-> FALSE]

\* loadSentTweets: the file, the archives and the set it leaves behind; threw
\* tells whether an exception leaves the method
loadSentTweets(file, arch, set, t) ==
  IF ~file.exists THEN [file |-> file, arch |-> arch, set |-> set, threw |-> FALSE]
  ELSE
    LET rotate == file.size > RotateMB * MiB
        arch1 == IF rotate THEN rotateSentTweetsFile(file, arch, t) ELSE arch
        file1 == IF rotate THEN NoFile ELSE file
    IN IF ~file1.exists \/ ~file1.parses
       THEN [file |-> file1, arch |-> arch1, set |-> {}, threw |-> FALSE]   \* catch
       ELSE
         LET valid == validTweets(file1.entries, t)
             ids == {valid[i].recordId : i \in 1..Len(valid)}
         IN IF mostRemoved(Len(valid), Len(file1.entries))
            THEN [file |-> saveSentTweets(ids, t), arch |-> arch1, set |-> ids,
                  threw |-> FALSE]
            ELSE [file |-> file1, arch |-> arch1, set |-> ids, threw |-> FALSE]

----------------------------------------------------------------------------
(* Initial states *)

EntryTimes == {0 - (RetentionHours + 1), 0 - RetentionHours, 0 - (RetentionHours - 1)}
FileIds == {3, 7}
FileSizes == {100, RotateMB * MiB, RotateMB * MiB + 1}

RECURSIVE SeqsUpTo(_, _)
SeqsUpTo(S, n) ==
  IF n = 0 THEN {<<>>}
  ELSE LET shorter == SeqsUpTo(S, n - 1)
       IN shorter \cup {Append(q, x) : q \in shorter, x \in S}

Entries == [recordId : FileIds, sentAt : EntryTimes]

\* the files a start may find
AnyFile ==
  {NoFile}
  \cup {[exists |-> TRUE, parses |-> FALSE, entries |-> <<>>, size |-> sz] : sz \in FileSizes}
  \cup {[exists |-> TRUE, parses |-> TRUE, entries |-> es, size |-> sz] :
          es \in SeqsUpTo(Entries, MaxFileLen), sz \in FileSizes}

\* archives left by earlier runs: their timestamps lie before the start
AnyArchives == {{[name |-> 0 - k, data |-> NoFile] : k \in 1..n} : n \in 0..MaxArchives}

\* no file, a file holding a recent entry for record 3, or a file most of
\* whose entries are old, which the load cleans and saves
FewFiles ==
  { NoFile,
    [exists |-> TRUE, parses |-> TRUE, size |-> 100,
     entries |-> <<[recordId |-> 3, sentAt |-> 0 - 1]>>],
    [exists |-> TRUE, parses |-> TRUE, size |-> 300,
     entries |-> <<[recordId |-> 2, sentAt |-> 0 - (RetentionHours + 1)],
                   [recordId |-> 7, sentAt |-> 0 - (RetentionHours + 1)],
                   [recordId |-> 3, sentAt |-> 0 - 1]>>] }

InitCommon ==
  /\ now = 0
  /\ mainPc = "new"
  /\ sentTweets = {}
  /\ chatIds = {}
  /\ botInit = "none"
  /\ listening = FALSE
  /\ cpc = [c \in Slots |-> "idle"]
  /\ records = [c \in Slots |-> <<>>]
  /\ newTweets = [c \in Slots |-> <<>>]
  /\ pending = [c \in Slots |-> {}]
  /\ allRecordsToDelete = [c \in Slots |-> <<>>]
  /\ delIdx = [c \in Slots |-> 0]
  /\ deletedCount = [c \in Slots |-> 0]
  /\ loaded = {}
  /\ markedAt = [r \in Records |-> NoTime]
  /\ dispatched = [r \in Records |-> 0]
  /\ markedUnsent = {}
  /\ overlapped = FALSE
  /\ forbiddenSince = {}
  /\ fanned = [c \in Slots |-> {}]

\* no tweet at the formatter
NoFormat ==
  /\ tweetText = Undefined
  /\ rendered = <<>>
  /\ category = "none"

Init ==
  /\ InitCommon
  /\ NoFormat
  /\ envOk = TRUE
  /\ token \in BOOLEAN
  /\ manualChatIds \in {{}, {1}}
  /\ sentTweetsFile \in FewFiles
  /\ archives = {}
  /\ store \in {1..2, 1..3, Records}

InitLoad ==
  /\ InitCommon
  /\ NoFormat
  /\ envOk \in BOOLEAN
  /\ token \in BOOLEAN
  /\ manualChatIds \in {{}, {1}}
  /\ sentTweetsFile \in AnyFile
  /\ archives \in AnyArchives
  /\ store = 1..3

----------------------------------------------------------------------------
(* Start *)

Active(c) == cpc[c] # "idle"

\* the first await a cycle reaches: sendNewTweets returns at once without the
\* Telegram service and deleteRetweetAndReplyRecords starts its fetch
FirstAwait == IF token THEN "n_select" ELSE "d_select"

MaxOf(S) == CHOOSE x \in S : \A y \in S : x >= y

\* main: new RTCleaner() and the call of runManualOperations; an exception of
\* the constructor ends the process
Construct ==
  /\ mainPc = "new"
  /\ IF ~envOk \/ loadSentTweets(sentTweetsFile, archives, sentTweets, now).threw
     THEN /\ mainPc' = "exit1"
          /\ UNCHANGED <<cfgVars, fmtVars, now, fileVars, sentTweets, chatIds, botVars,
                         store, cycVars, histVars>>
     ELSE LET L == loadSentTweets(sentTweetsFile, archives, sentTweets, now)
              es == L.file.entries
          IN /\ sentTweetsFile' = L.file
             /\ archives' = L.arch
             /\ sentTweets' = L.set
             /\ loaded' = L.set
             /\ markedAt' =
                  [r \in Records |->
                     IF r \in L.set
                     THEN MaxOf({sentTweetsFile.entries[i].sentAt :
                                   i \in {j \in 1..Len(sentTweetsFile.entries) :
                                            sentTweetsFile.entries[j].recordId = r}})
                     ELSE NoTime]
             /\ chatIds' = IF token THEN manualChatIds ELSE {}
             /\ botInit' = IF token THEN "getMe" ELSE "none"
             /\ mainPc' = "manual"
             /\ cpc' = [cpc EXCEPT ![1] = FirstAwait]
             /\ UNCHANGED <<cfgVars, fmtVars, now, listening, store, records, newTweets,
                            pending, allRecordsToDelete, delIdx, deletedCount,
                            dispatched, markedUnsent, overlapped, forbiddenSince, fanned>>

----------------------------------------------------------------------------
(* Telegram bot start-up and live events *)

\* initializeBot: getMe settles; on success setupMessageListeners runs and
\* updateChatIds calls getUpdates
GetMeDone(ok) ==
  /\ botInit = "getMe"
  /\ botInit' = IF ok THEN "getUpdates" ELSE "done"
  /\ listening' = ok
  /\ UNCHANGED <<cfgVars, fmtVars, now, mainPc, fileVars, sentTweets, chatIds, store,
                 cycVars, histVars>>

\* a discovery whose result is dropped
updateChatIds_stale(ids, ok, found) == ids

\* updateChatIds: the chats of the updates are added; a failure is logged
updateChatIds(ids, ok, found) == IF ok THEN ids \cup found ELSE ids

InitUpdatesDone(ok, found) ==
  /\ botInit = "getUpdates"
  /\ botInit' = "done"
  /\ chatIds' = updateChatIds(chatIds, ok, found)
  /\ forbiddenSince' = IF ok THEN forbiddenSince \ found ELSE forbiddenSince
  /\ UNCHANGED <<cfgVars, fmtVars, now, mainPc, fileVars, sentTweets, listening, store,
                 cycVars, loaded, markedAt, dispatched, markedUnsent, overlapped, fanned>>

\* a listener that keeps only the chat of the last event
onMessage_replace(ids, chatId) == {chatId}

\* bot.on('message') and bot.on('new_chat_members')
onMessage(ids, chatId) == IF chatId \notin ids THEN ids \cup {chatId} ELSE ids

LiveEvent(chatId) ==
  /\ listening
  /\ chatIds' = onMessage(chatIds, chatId)
  /\ forbiddenSince' = forbiddenSince \ {chatId}
  /\ UNCHANGED <<cfgVars, fmtVars, now, mainPc, fileVars, sentTweets, botVars, store,
                 cycVars, loaded, markedAt, dispatched, markedUnsent, overlapped, fanned>>

----------------------------------------------------------------------------
(* Environment *)
\* The table changes through the program's deletes only; Init chooses among
\* three tables, one of which the first delete stage empties.

\* hours pass: the clock first jumps past the retention window, then goes on
\* hour by hour
Tick ==
  /\ now < MaxTime
  /\ now' = IF now + RetentionHours + 1 <= MaxTime THEN now + RetentionHours + 1
            ELSE now + 1
  /\ UNCHANGED <<cfgVars, fmtVars, mainPc, fileVars, sentTweets, chatIds, botVars, store,
                 cycVars, histVars>>

----------------------------------------------------------------------------
(* sendNewTweets *)

\* the filter without the check of the sent set
isNewTweet_resend(r, sent) ==
  LET text == Text(r)
  IN IF isRetweet(text) THEN FALSE
     ELSE IF isReply(text) THEN FALSE
     ELSE Truthy(text)

\* the predicate of records.filter at lines 501-519
isNewTweet(r, sent) ==
  LET text == Text(r)
      isRt == isRetweet(text)
      isReplyTweet == isReply(text)
      alreadySent == r \in sent
  IN IF isRt THEN FALSE
     ELSE IF isReplyTweet THEN FALSE
     ELSE ~alreadySent /\ Truthy(text)

filterNewTweets(recs, sent) == SelectSeq(recs, LAMBDA r : isNewTweet(r, sent))

\* a cycle whose end throws out of runManualOperations into main's catch
EndCycle_throws(c) ==
  /\ cpc' = [cpc EXCEPT ![c] = "idle"]
  /\ records' = [records EXCEPT ![c] = <<>>]
  /\ allRecordsToDelete' = [allRecordsToDelete EXCEPT ![c] = <<>>]
  /\ delIdx' = [delIdx EXCEPT ![c] = 0]
  /\ mainPc' = IF mainPc = "manual" THEN "exit1" ELSE mainPc

\* the end of a cycle: the callback (or runManualOperations) returns; main
\* arms the scheduler after runManualOperations
EndCycle(c) ==
  /\ cpc' = [cpc EXCEPT ![c] = "idle"]
  /\ records' = [records EXCEPT ![c] = <<>>]
  /\ allRecordsToDelete' = [allRecordsToDelete EXCEPT ![c] = <<>>]
  /\ delIdx' = [delIdx EXCEPT ![c] = 0]
  /\ mainPc' = IF mainPc = "manual" THEN "armed" ELSE mainPc

\* a callback that returns when there is nothing to send
afterFilter_return(found) == IF Len(found) = 0 THEN "idle" ELSE "n_getUpdates"

\* lines 521-537: without new tweets sendNewTweets returns and the caller goes
\* on to deleteRetweetAndReplyRecords; otherwise sendTweetNotifications is called
afterFilter(found) == IF Len(found) = 0 THEN "d_select" ELSE "n_getUpdates"

\* table.select of sendNewTweets settles; the filter runs; with candidates
\* sendTweetNotifications formats the message and calls getUpdates
NotifySelectDone(c, ok) ==
  /\ cpc[c] = "n_select"
  /\ LET recs == IF ok THEN SelectSorted(store) ELSE <<>>
         found == filterNewTweets(recs, sentTweets)
     IN /\ records' = [records EXCEPT ![c] = recs]
        /\ newTweets' = [newTweets EXCEPT ![c] = found]
        /\ cpc' = [cpc EXCEPT ![c] = afterFilter(found)]
  /\ UNCHANGED <<cfgVars, fmtVars, now, mainPc, fileVars, sentTweets, chatIds, botVars,
                 store, pending, allRecordsToDelete, delIdx, deletedCount, histVars>>

\* a mark that is lost
markSent_lost(set, tweets) == set

\* lines 540-542: newTweets.forEach(record => this.sentTweets.add(record.id))
markSent(set, tweets) == set \cup Range(tweets)

\* lines 539-544 and the return into the callback, which starts the delete stage
MarkAndSave(c, skipped) ==
  LET set == markSent(sentTweets, newTweets[c])
  IN /\ sentTweets' = set
     /\ sentTweetsFile' = saveSentTweets(set, now)
     /\ markedAt' = [r \in Records |-> IF r \in Range(newTweets[c]) THEN now ELSE markedAt[r]]
     /\ markedUnsent' = IF skipped THEN markedUnsent \cup Range(newTweets[c]) ELSE markedUnsent
     /\ newTweets' = [newTweets EXCEPT ![c] = <<>>]
     /\ records' = [records EXCEPT ![c] = <<>>]
     /\ cpc' = [cpc EXCEPT ![c] = "d_select"]
     /\ UNCHANGED archives

\* a fan-out that sends to the configured chats only
fanOutTargets_manual(ids) == ids \cap manualChatIds

\* the chats a fan-out sends to: Array.from(this.chatIds)
fanOutTargets(ids) == ids

\* getUpdates of sendTweetNotifications settles; without chats the method
\* returns, otherwise one sendMessage per chat is started
GetUpdatesDone(c, ok, found) ==
  /\ cpc[c] = "n_getUpdates"
  /\ LET ids == updateChatIds(chatIds, ok, found)
     IN /\ chatIds' = ids
        /\ forbiddenSince' = IF ok THEN forbiddenSince \ found ELSE forbiddenSince
        /\ IF Cardinality(ids) = 0
           THEN /\ MarkAndSave(c, TRUE)
                /\ UNCHANGED <<pending, fanned, dispatched>>
           ELSE /\ pending' = [pending EXCEPT ![c] = fanOutTargets(ids)]
                /\ fanned' = [fanned EXCEPT ![c] = fanOutTargets(ids)]
                /\ cpc' = [cpc EXCEPT ![c] = "n_send"]
                /\ dispatched' = [r \in Records |->
                                    IF r \in Range(newTweets[c]) /\ dispatched[r] < 2
                                    THEN dispatched[r] + 1 ELSE dispatched[r]]
                /\ UNCHANGED <<fileVars, sentTweets, newTweets, records, markedAt,
                               markedUnsent>>
  /\ UNCHANGED <<cfgVars, fmtVars, now, mainPc, botVars, store,
                 allRecordsToDelete, delIdx, deletedCount, loaded, overlapped>>

\* a catch that only logs
afterSend_keep(ids, chatId, outcome) == ids

\* a catch that removes the chat on any failure
afterSend_drop(ids, chatId, outcome) ==
  IF outcome # "ok" THEN ids \ {chatId} ELSE ids

\* the catch of the send: a 403 removes the chat
afterSend(ids, chatId, outcome) ==
  IF outcome = "forbidden" THEN ids \ {chatId} ELSE ids

\* one sendMessage settles; when the last one has, Promise.all resolves and
\* sendNewTweets marks and saves
SendDone(c, chatId, outcome) ==
  /\ cpc[c] = "n_send"
  /\ chatId \in pending[c]
  /\ chatIds' = afterSend(chatIds, chatId, outcome)
  /\ forbiddenSince' = IF outcome = "forbidden" THEN forbiddenSince \cup {chatId}
                       ELSE forbiddenSince
  /\ pending' = [pending EXCEPT ![c] = @ \ {chatId}]
  /\ IF pending[c] = {chatId}
     THEN MarkAndSave(c, FALSE) /\ fanned' = [fanned EXCEPT ![c] = {}]
     ELSE UNCHANGED <<fileVars, sentTweets, newTweets, records, cpc, markedAt,
                      markedUnsent, fanned>>
  /\ UNCHANGED <<cfgVars, fmtVars, now, mainPc, botVars, store,
                 allRecordsToDelete, delIdx, deletedCount, loaded, dispatched, overlapped>>

----------------------------------------------------------------------------
(* deleteRetweetAndReplyRecords *)

rtRecords(recs) == SelectSeq(recs, LAMBDA r : isRetweet(Text(r)))

\* the reply filter without "&& !this.isRetweet(text)"
replyRecords_double(recs) == SelectSeq(recs, LAMBDA r : isReply(Text(r)))

replyRecords(recs) ==
  SelectSeq(recs, LAMBDA r : isReply(Text(r)) /\ ~isRetweet(Text(r)))

recordsToDelete(recs) == rtRecords(recs) \o replyRecords(recs)

\* allRecordsToDelete.slice(i, i + batchSize)
Batch(all, i) ==
  SubSeq(all, i + 1, IF i + batchSize < Len(all) THEN i + batchSize ELSE Len(all))

\* table.select of the delete stage settles
DeleteSelectDone(c, ok) ==
  /\ cpc[c] = "d_select"
  /\ LET recs == IF ok THEN SelectPlain(store) ELSE <<>>
         all == recordsToDelete(recs)
     IN IF Len(all) = 0
        THEN EndCycle(c) /\ deletedCount' = [deletedCount EXCEPT ![c] = 0]
        ELSE /\ records' = [records EXCEPT ![c] = recs]
             /\ allRecordsToDelete' = [allRecordsToDelete EXCEPT ![c] = all]
             /\ delIdx' = [delIdx EXCEPT ![c] = 0]
             /\ deletedCount' = [deletedCount EXCEPT ![c] = 0]
             /\ cpc' = [cpc EXCEPT ![c] = "d_destroy"]
             /\ UNCHANGED mainPc
  /\ UNCHANGED <<cfgVars, fmtVars, now, fileVars, sentTweets, chatIds, botVars, store,
                 newTweets, pending, histVars>>

\* a loop that tries a failed batch again
nextIndex_retry(i, ok) == IF ok THEN i + batchSize ELSE i

\* line 590: i += batchSize, after the try/catch of the batch
nextIndex(i, ok) == i + batchSize

\* a count that is raised whether or not the destroy succeeded
countDeleted_always(count, ok, recordIds) == count + Len(recordIds)

\* line 596, after the await inside the try: deletedCount += recordIds.length
countDeleted(count, ok, recordIds) == IF ok THEN count + Len(recordIds) ELSE count

\* table.destroy of one batch settles; the loop goes on or the cycle ends,
\* logging deletedCount
DestroyDone(c, ok) ==
  /\ cpc[c] = "d_destroy"
  /\ LET all == allRecordsToDelete[c]
         recordIds == Batch(all, delIdx[c])
         i == nextIndex(delIdx[c], ok)
     IN /\ ok => Range(recordIds) \subseteq store
        /\ store' = IF ok THEN store \ Range(recordIds) ELSE store
        /\ deletedCount' = [deletedCount EXCEPT ![c] = countDeleted(@, ok, recordIds)]
        /\ IF i < Len(all)
           THEN /\ delIdx' = [delIdx EXCEPT ![c] = i]
                /\ UNCHANGED <<cpc, records, allRecordsToDelete, mainPc>>
           ELSE EndCycle(c)
  /\ UNCHANGED <<cfgVars, fmtVars, now, fileVars, sentTweets, chatIds, botVars,
                 newTweets, pending, histVars>>

----------------------------------------------------------------------------
(* startScheduledProcesses *)

\* a main that does not await runManualOperations
scheduled_early(pc) == pc \in {"manual", "armed"}

\* main, lines 652-655: startScheduledProcesses is called after the await of
\* runManualOperations
scheduled(pc) == pc = "armed"

\* the scheduler fires its callback every minute, whether or not an earlier
\* callback has returned
CronTick ==
  /\ scheduled(mainPc)
  /\ \E c \in Slots :
       /\ ~Active(c)
       /\ \A d \in Slots : d < c => Active(d)
       /\ cpc' = [cpc EXCEPT ![c] = FirstAwait]
       /\ overlapped' = (overlapped \/ \E d \in Slots : Active(d))
  /\ UNCHANGED <<cfgVars, fmtVars, now, mainPc, fileVars, sentTweets, chatIds, botVars,
                 store, records, newTweets, pending, allRecordsToDelete, delIdx,
                 deletedCount, loaded, markedAt, dispatched, markedUnsent,
                 forbiddenSince, fanned>>

----------------------------------------------------------------------------
(* formatTweetMessage *)

\* truncateText: a text within the budget is returned as it is, a longer one
\* is cut and the cut is trimmed
truncateText(text, max) ==
  IF Len(text) <= max THEN text ELSE Trim(SubSeq(text, 1, max))

Ellipsis == <<".", ".", ".">>

\* the text and the marker of one entry, line 121: ${text}${text.length >= 100 ? '...' : ''}
formatTweet(tweetTextField) ==
  LET text == truncateText(IF Truthy(tweetTextField) THEN tweetTextField[1] ELSE <<>>,
                           maxLength)
  IN [text |-> text, marker |-> IF Len(text) >= maxLength THEN Ellipsis ELSE <<>>]

\* the texts handed to the formatter: every length up to MaxTextLen, blanks
\* at the start and around the budget
BlankPositions == {1, maxLength - 1, maxLength, maxLength + 1}

FormatInputs ==
  {Undefined}
  \cup {Some([i \in 1..n |-> IF i \in sp THEN " " ELSE "a"]) :
          n \in 0..MaxTextLen, sp \in SUBSET BlankPositions}

InitFormat ==
  /\ InitCommon
  /\ envOk = TRUE
  /\ token = TRUE
  /\ manualChatIds = {}
  /\ sentTweetsFile = NoFile
  /\ archives = {}
  /\ store = {}
  /\ tweetText \in FormatInputs
  /\ rendered = <<>>
  /\ category = "none"

\* formatTweetMessage renders the entry of the tweet
Format ==
  /\ rendered = <<>>
  /\ rendered' = <<formatTweet(tweetText)>>
  /\ UNCHANGED <<cfgVars, now, mainPc, fileVars, sentTweets, chatIds, botVars, store,
                 cycVars, histVars, tweetText, category>>

----------------------------------------------------------------------------
(* The filters on one record *)

\* which list the filters of deleteRetweetAndReplyRecords put a record in:
\* rtRecords, replyRecords (a reply that is no retweet), or neither
categoryOf(text) ==
  IF isRetweet(text) THEN "Retweet"
  ELSE IF isReply(text) /\ ~isRetweet(text) THEN "Reply"
  ELSE "Original"

Blanks(n) == [i \in 1..n |-> " "]

HandleChars == <<"a", "_", "1", "b">>

\* the texts handed to the filters: blanks, a head, blanks, an at sign, a
\* handle, what follows the handle, and the rest of the text
Heads == {<<>>, <<"R", "T">>, <<"r", "t">>, <<"R", "t">>, <<"R">>, <<"h", "i">>}
Ats == {<<>>, <<"@">>}
Handles == {SubSeq(HandleChars, 1, k) : k \in 0..MaxHandle}
Tails == {<<>>, <<":">>, <<" ">>, <<" ", ":">>, <<"!">>}
Rests ==
  { <<>>,
    <<"h", "i">>,
    <<"i", "n", " ", "r", "e", "p", "l", "y", " ", "t", "o", " ", "b">>,
    <<"R", "e", "p", "l", "y", "i", "n", "g", " ", "T", "o", " ", "b">>,
    <<"r", "e", "s", "p", "o", "n", "d", "i", "n", "g", " ", "t", "o">> }

ClassifyInputs ==
  {Undefined}
  \cup {Some(Blanks(lead) \o head \o Blanks(gap) \o at \o handle \o tail \o rest) :
          lead \in 0..1, head \in Heads, gap \in 0..MaxGap, at \in Ats,
          handle \in Handles, tail \in Tails, rest \in Rests}

InitClassify ==
  /\ InitCommon
  /\ envOk = TRUE
  /\ token = TRUE
  /\ manualChatIds = {}
  /\ sentTweetsFile = NoFile
  /\ archives = {}
  /\ store = {}
  /\ tweetText \in ClassifyInputs
  /\ rendered = <<>>
  /\ category = "none"

\* the filters run on the record
Classify ==
  /\ category = "none"
  /\ category' = categoryOf(tweetText)
  /\ UNCHANGED <<cfgVars, now, mainPc, fileVars, sentTweets, chatIds, botVars, store,
                 cycVars, histVars, tweetText, rendered>>

----------------------------------------------------------------------------
(* Specifications *)

Outcomes == {"ok", "transient", "forbidden"}

\* the two stages of a cycle and the scheduler
Cycle ==
  \/ \E c \in Slots, ok \in BOOLEAN : NotifySelectDone(c, ok)
  \/ \E c \in Slots, ok \in BOOLEAN, found \in SUBSET Chats : GetUpdatesDone(c, ok, found)
  \/ \E c \in Slots, chatId \in Chats, outcome \in Outcomes : SendDone(c, chatId, outcome)
  \/ \E c \in Slots, ok \in BOOLEAN : DeleteSelectDone(c, ok)
  \/ \E c \in Slots, ok \in BOOLEAN : DestroyDone(c, ok)
  \/ CronTick

\* a run with the bot's start-up and live events, on a clock that stands still
Next ==
  \/ Construct
  \/ \E ok \in BOOLEAN : GetMeDone(ok)
  \/ \E ok \in BOOLEAN, found \in SUBSET Chats : InitUpdatesDone(ok, found)
  \/ \E chatId \in Chats : LiveEvent(chatId)
  \/ Cycle

Spec == Init /\ [][Next]_vars

\* a run over hours, the chats coming from the configuration and the backlog
NextClock ==
  \/ Construct
  \/ Tick
  \/ Cycle

SpecClock == Init /\ [][NextClock]_vars

\* the start alone, over the files and archives it may find
NextLoad == Construct
SpecLoad == InitLoad /\ [][NextLoad]_vars

\* the formatter alone, over the texts it may be handed
NextFormat == Format
SpecFormat == InitFormat /\ [][NextFormat]_vars

\* the filters alone, over the texts a record may hold
NextClassify == Classify
SpecClassify == InitClassify /\ [][NextClassify]_vars

\* tables of up to MaxRecords records and no Telegram service: the cycles are
\* delete stages only
InitDelete ==
  /\ InitCommon
  /\ NoFormat
  /\ envOk = TRUE
  /\ token = FALSE
  /\ manualChatIds = {}
  /\ sentTweetsFile = NoFile
  /\ archives = {}
  /\ store \in {1..n : n \in 0..MaxRecords}

NextDelete ==
  \/ Construct
  \/ \E c \in Slots, ok \in BOOLEAN : DeleteSelectDone(c, ok)
  \/ \E c \in Slots, ok \in BOOLEAN : DestroyDone(c, ok)
  \/ CronTick

SpecDelete == InitDelete /\ [][NextDelete]_vars

\* the cycles alone, every call of a cycle settling in the end: the store's
\* fetches and deletes, getUpdates and sendMessage
NextLive ==
  \/ Construct
  \/ Cycle

CallsSettle ==
  \A c \in Slots :
    /\ WF_vars(\E ok \in BOOLEAN : NotifySelectDone(c, ok))
    /\ WF_vars(\E ok \in BOOLEAN, found \in SUBSET Chats : GetUpdatesDone(c, ok, found))
    /\ WF_vars(\E chatId \in Chats, outcome \in Outcomes : SendDone(c, chatId, outcome))
    /\ WF_vars(\E ok \in BOOLEAN : DeleteSelectDone(c, ok))
    /\ WF_vars(\E ok \in BOOLEAN : DestroyDone(c, ok))

\* a first start: no file of sent tweets yet
InitLive ==
  /\ InitCommon
  /\ NoFormat
  /\ envOk = TRUE
  /\ token \in BOOLEAN
  /\ manualChatIds \in {{}, {1}}
  /\ sentTweetsFile = NoFile
  /\ archives = {}
  /\ store \in {1..3, Records}

SpecLive == InitLive /\ [][NextLive]_vars /\ CallsSettle

----------------------------------------------------------------------------
(* Properties *)

\* the category of a text: Retweet before Reply, Original otherwise
classify(text) ==
  IF isRetweet(text) THEN "Retweet"
  ELSE IF isReply(text) THEN "Reply"
  ELSE "Original"

NonEmptyText(text) == text # Undefined /\ Len(text[1]) > 0

IsCandidate(r, sent) ==
  classify(TextOf[r]) = "Original" /\ NonEmptyText(TextOf[r]) /\ r \notin sent

FileRecordIds(file) == {file.entries[i].recordId : i \in 1..Len(file.entries)}

NoDuplicates(s) == \A i, j \in 1..Len(s) : i # j => s[i] # s[j]

\* C1: as long as cycles have not overlapped, a record is in at most one
\* dispatched batch; a record a cycle of this run marked after a fan-out was
\* dispatched exactly once; and no batch holds a record of the sent set, so a
\* cycle that fetches the record again dispatches nothing for it.
C1_OneDispatch ==
  ~overlapped =>
    /\ \A r \in Records :
         /\ dispatched[r] <= 1
         /\ r \in sentTweets \ (loaded \cup markedUnsent) => dispatched[r] = 1
    /\ \A c \in Slots : Range(newTweets[c]) \cap sentTweets = {}

\* a later cycle has fetched record 3, which was dispatched once and marked in
\* this run, and has found nothing to send
C1_Witness ==
  /\ ~overlapped
  /\ 3 \in sentTweets \ (loaded \cup markedUnsent)
  /\ dispatched[3] = 1
  /\ \E c \in Slots :
       /\ cpc[c] = "d_select"
       /\ 3 \in Range(records[c])
       /\ newTweets[c] = <<>>

\* C2: the step that ends a cycle's notify fetch leaves as the batch exactly
\* the fetched records, in fetch order, that are Original, have a non-empty
\* text and are not in the sent set.
C2_BatchIsCandidates ==
  [][\A c \in Slots :
       (cpc[c] = "n_select" /\ cpc'[c] # "n_select")
         => newTweets'[c] = SelectSeq(records'[c], LAMBDA r : IsCandidate(r, sentTweets))]_vars

\* all seven records fetched, record 3 already sent: the batch is record 7 alone
C2_Witness ==
  \E c \in Slots :
    /\ cpc[c] = "n_getUpdates"
    /\ records[c] = <<7, 6, 5, 4, 3, 2, 1>>
    /\ 3 \in sentTweets
    /\ newTweets[c] = <<7>>

\* C3: the delete targets are the fetched Retweet and Reply records, each once,
\* the Retweets first; for the records 1, 2, 3 they are <<1, 2>> and the batch
\* of unsent record 3 is <<3>>.
C3_DeleteTargets ==
  \A c \in Slots :
    /\ cpc[c] = "d_destroy" =>
         LET all == allRecordsToDelete[c]
         IN /\ NoDuplicates(all)
            /\ Range(all) = {r \in Range(records[c]) :
                               classify(TextOf[r]) \in {"Retweet", "Reply"}}
            /\ \A i, j \in 1..Len(all) :
                 (classify(TextOf[all[i]]) = "Reply"
                    /\ classify(TextOf[all[j]]) = "Retweet") => j < i
            /\ Range(records[c]) = {1, 2, 3} => all = <<1, 2>>
    /\ (cpc[c] \in {"n_getUpdates", "n_send"} /\ Range(records[c]) = {1, 2, 3})
         => newTweets[c] = <<3>>

\* all seven records fetched: record 4, which matches both patterns, is
\* targeted once, among the Retweets
C3_Witness ==
  \E c \in Slots :
    /\ cpc[c] = "d_destroy"
    /\ records[c] = <<1, 2, 3, 4, 5, 6, 7>>
    /\ allRecordsToDelete[c] = <<1, 4, 2>>

\* C4: the step in which the last send of a fan-out settles puts every record
\* of the batch into the sent set and into the file.
C4_BatchPersisted ==
  [][\A c \in Slots :
       (cpc[c] = "n_send" /\ cpc'[c] # "n_send")
         => /\ Range(newTweets[c]) \subseteq sentTweets'
            /\ Range(newTweets[c]) \subseteq FileRecordIds(sentTweetsFile')]_vars

\* record 3 was dispatched once, to chat 1 alone, the send returned 403, and
\* the record is in the set and in the file
C4_Witness ==
  /\ dispatched[3] = 1
  /\ 3 \in sentTweets \ (loaded \cup markedUnsent)
  /\ 3 \in FileRecordIds(sentTweetsFile)
  /\ chatIds = {}
  /\ forbiddenSince = {1}
  /\ \A c \in Slots : cpc[c] # "n_send"

\* C5: a chat whose send returned 403 and that was not observed since is not
\* in the registry, and no send to it is started.
C5_ForbiddenNotSent ==
  [][/\ forbiddenSince' \cap chatIds' = {}
     /\ \A c \in Slots : (pending'[c] \ pending[c]) \cap forbiddenSince' = {}]_vars

\* a fan-out started for chat 2 alone while the configured chat 1 is forbidden
C5_Witness ==
  \E c \in Slots :
    /\ cpc[c] = "n_send"
    /\ fanned[c] = {2}
    /\ 1 \in forbiddenSince
    /\ 1 \in manualChatIds

\* C6: an id whose latest mark is more than the retention window old is not in
\* the sent set.
C6_SlidingWindow ==
  \A r \in Records :
    (markedAt[r] # NoTime /\ now - markedAt[r] > RetentionHours) => r \notin sentTweets

\* C7: a load of a readable file that is not rotated leaves in the set exactly
\* the ids of the entries less than the retention window old.
C7_LoadKeepsWindow ==
  [][(/\ mainPc = "new" /\ mainPc' = "manual"
      /\ sentTweetsFile.exists /\ sentTweetsFile.parses
      /\ ~(sentTweetsFile.size > RotateMB * MiB))
       => sentTweets' =
            {e.recordId : e \in {x \in Range(sentTweetsFile.entries) :
                                   now - x.sentAt < RetentionHours}}]_vars

\* an entry seven hours old for record 3 and one five hours old for record 7
C7_Witness ==
  /\ mainPc = "manual"
  /\ sentTweetsFile.entries = <<[recordId |-> 3, sentAt |-> 0 - 7],
                                [recordId |-> 7, sentAt |-> 0 - 5]>>
  /\ sentTweets = {7}

\* C8: a load of a file above the threshold leaves the set empty, adds exactly
\* one archive, named by the time and holding the file, and leaves at most
\* ArchiveKeep archives, every kept one newer than every removed one.
C8_Rotation ==
  [][(/\ mainPc = "new" /\ mainPc' = "manual"
      /\ sentTweetsFile.exists
      /\ sentTweetsFile.size > RotateMB * MiB)
       => /\ sentTweets' = {}
          /\ archives' \ archives = {[name |-> now, data |-> sentTweetsFile]}
          /\ Cardinality(archives') <= ArchiveKeep
          /\ \A a \in archives' : \A b \in archives \ archives' : a.name > b.name]_vars

\* a rotation that found six archives: five are left, the new one among them
C8_Witness ==
  /\ mainPc = "manual"
  /\ sentTweets = {}
  /\ ~sentTweetsFile.exists
  /\ Cardinality(archives) = ArchiveKeep
  /\ {a.name : a \in archives} = {now} \cup {0 - k : k \in 1..(ArchiveKeep - 1)}
  /\ \E a \in archives : a.name = now /\ Len(a.data.entries) > 0

\* C9: with the configuration present, a start that finds a file it cannot
\* read or parse leaves the set empty and goes on into the first cycle.
C9_CorruptRecovers ==
  [][(/\ mainPc = "new" /\ envOk
      /\ sentTweetsFile.exists /\ ~sentTweetsFile.parses)
       => /\ mainPc' = "manual"
          /\ sentTweets' = {}
          /\ cpc'[1] # "idle"]_vars

\* the start found a malformed file and the first cycle awaits its fetch
C9_Witness ==
  /\ mainPc = "manual"
  /\ sentTweetsFile.exists /\ ~sentTweetsFile.parses
  /\ sentTweets = {}
  /\ cpc[1] = "n_select"

\* C10: at most one cycle is in progress.
C10_NoOverlap == Cardinality({c \in Slots : Active(c)}) <= 1

\* C11: a notify fetch that fails or returns no record ends the notify stage
\* and hands over to the delete stage; a delete fetch that fails or returns no
\* record ends the cycle, and main arms the scheduler after the first cycle.
\* Neither step starts a send or a delete, and neither changes the sent set,
\* the file, the registry or the table.
C11_FetchFailureContained ==
  [][\A c \in Slots :
       LET left(pc) == cpc[c] = pc /\ cpc'[c] # pc
           quiet == /\ sentTweets' = sentTweets
                    /\ sentTweetsFile' = sentTweetsFile
                    /\ chatIds' = chatIds
                    /\ store' = store
                    /\ pending' = pending
                    /\ dispatched' = dispatched
                    /\ cpc'[c] \notin {"n_getUpdates", "n_send", "d_destroy"}
                    /\ mainPc' # "exit1"
       IN /\ (NotifySelectDone(c, FALSE) \/ (left("n_select") /\ store = {}))
             => quiet /\ cpc'[c] = "d_select"
          /\ (DeleteSelectDone(c, FALSE) \/ (left("d_select") /\ store = {}))
             => /\ quiet
                /\ cpc'[c] = "idle"
                /\ mainPc = "manual" => mainPc' = "armed"]_vars

\* the notify fetch of a cycle failed although the unsent record 3 is in the
\* table: the cycle awaits its delete fetch and nothing was sent or marked
C11_Witness ==
  \E c \in Slots :
    /\ token
    /\ cpc[c] = "d_select"
    /\ records[c] = <<>>
    /\ 3 \in store \ sentTweets
    /\ dispatched[3] = 0
    /\ sentTweetsFile = NoFile

\* C12: the step that starts a fan-out starts one send for every chat of the
\* registry as discovery left it; while the fan-out is in flight no further
\* send is started for the cycle, a step settles at most one of its sends,
\* whatever happens to the registry, and the fan-out ends only when every one
\* of its sends has settled.
C12_OneAttemptEach ==
  [][\A c \in Slots :
       /\ (cpc[c] = "n_getUpdates" /\ cpc'[c] = "n_send")
            => pending'[c] = chatIds' /\ fanned'[c] = chatIds'
       /\ cpc[c] = "n_send"
            => /\ pending'[c] \subseteq pending[c]
               /\ Cardinality(pending[c] \ pending'[c]) <= 1
               /\ cpc'[c] = "n_send" => fanned'[c] = fanned[c] /\ pending'[c] # {}
               /\ cpc'[c] # "n_send" => pending'[c] = {}]_vars

\* a fan-out to the chats 1 and 2: the send to chat 1 returned 403 and chat 1
\* left the registry, the send to chat 2 is still in flight
C12_Witness ==
  \E c \in Slots :
    /\ cpc[c] = "n_send"
    /\ fanned[c] = {1, 2}
    /\ pending[c] = {2}
    /\ chatIds = {2}
    /\ 1 \in forbiddenSince

\* C13: after a step that saves (the mark and save that ends a notify stage,
\* or the cleaning save of the load) the ids of the file's entries are exactly
\* the ids of the sent set.
C13_FileMatchesSet ==
  [][(\/ \E c \in Slots : cpc[c] \in {"n_getUpdates", "n_send"} /\ cpc'[c] = "d_select"
      \/ /\ mainPc = "new" /\ mainPc' = "manual"
         /\ sentTweetsFile.exists /\ sentTweetsFile.parses
         /\ 2 * Len(validTweets(sentTweetsFile.entries, now)) < Len(sentTweetsFile.entries))
       => /\ sentTweetsFile'.exists /\ sentTweetsFile'.parses
          /\ FileRecordIds(sentTweetsFile') = sentTweets']_vars

\* the load kept record 3 and a cycle then marked record 7 and saved: set and
\* file hold the ids 3 and 7, one entry each
C13_Witness ==
  /\ loaded = {3}
  /\ markedAt[7] = now
  /\ sentTweets = {3, 7}
  /\ FileRecordIds(sentTweetsFile) = {3, 7}
  /\ Len(sentTweetsFile.entries) = 2
  /\ \E c \in Slots : cpc[c] = "d_select"

\* C14: the excerpt of an entry has at most maxLength characters; the marker
\* is appended exactly when the tweet's text is longer than maxLength; a text
\* of at most maxLength characters is rendered in full.
C14_MarkerIffTruncated ==
  rendered # <<>> =>
    LET text == IF Truthy(tweetText) THEN tweetText[1] ELSE <<>>
        entry == rendered[1]
    IN /\ Len(entry.text) <= maxLength
       /\ entry.marker = Ellipsis <=> Len(text) > maxLength
       /\ entry.marker \in {Ellipsis, <<>>}
       /\ Len(text) <= maxLength => entry.text = text

\* the first position from `from` on whose character is outside chars, 0 if
\* there is none
FirstOutside(s, from, chars) ==
  LET out == {i \in from..Len(s) : s[i] \notin chars}
  IN IF out = {} THEN 0 ELSE CHOOSE i \in out : \A j \in out : i <= j

\* the trimmed text reads RT, blanks or none, an at sign, a handle, and then
\* a colon or a blank
StatedRetweet(text) ==
  /\ NonEmptyText(text)
  /\ LET s == Trim(text[1])
         at == FirstOutside(s, 3, Whitespace)
         end == FirstOutside(s, at + 1, WordChars)
     IN /\ Len(s) >= 2 /\ ToLowerCase(SubSeq(s, 1, 2)) = <<"r", "t">>
        /\ at # 0 /\ s[at] = "@"
        /\ end > at + 1
        /\ s[end] = ":" \/ s[end] = " "

\* not a retweet, and the trimmed text begins with a handle or holds one of
\* the three phrases in any case
StatedReply(text) ==
  /\ NonEmptyText(text)
  /\ ~StatedRetweet(text)
  /\ LET s == Trim(text[1])
     IN \/ Len(s) >= 2 /\ s[1] = "@" /\ s[2] \in WordChars
        \/ \E phrase \in replyIndicators : Includes(ToLowerCase(s), phrase)

\* C15: every text falls into exactly one of Retweet, Reply and Original: it
\* is Retweet when its trimmed form reads RT, optional blanks, a handle and a
\* colon or a blank, whatever else it holds; Reply when it is no Retweet and
\* begins with a handle or holds a reply phrase; Original otherwise; a
\* missing or empty text is Original.
C15_Classify ==
  category # "none" =>
    /\ category \in {"Retweet", "Reply", "Original"}
    /\ category = "Retweet" <=> StatedRetweet(tweetText)
    /\ category = "Reply" <=> StatedReply(tweetText)
    /\ ~NonEmptyText(tweetText) => category = "Original"

\* " rt @a in reply to b" is put among the retweets although it holds a reply
\* phrase
C15_Witness ==
  /\ tweetText = Some(<<" ", "r", "t", " ", "@", "a", " ">> \o
                      <<"i", "n", " ", "r", "e", "p", "l", "y", " ", "t", "o", " ", "b">>)
  /\ category = "Retweet"

\* C16: a cycle reaches discovery only from its fetch and with a batch, and
\* starts sending only from discovery; when discovery reports chats, they and
\* the chats of the registry all get a send of this cycle, and the cycle does
\* send if there is any such chat.
C16_DiscoveryBeforeSend ==
  [][\A c \in Slots :
       /\ (cpc'[c] = "n_getUpdates" /\ cpc[c] # "n_getUpdates")
            => cpc[c] = "n_select" /\ newTweets'[c] # <<>>
       /\ (cpc'[c] = "n_send" /\ cpc[c] # "n_send")
            => /\ cpc[c] = "n_getUpdates" /\ newTweets[c] # <<>>
               /\ chatIds \subseteq pending'[c]
       /\ \A found \in SUBSET Chats :
            (GetUpdatesDone(c, TRUE, found) /\ chatIds \cup found # {})
              => /\ cpc'[c] = "n_send"
                 /\ pending'[c] = chatIds \cup found
                 /\ fanned'[c] = chatIds \cup found]_vars

\* no chat is configured and no listener is set up, so no live event was
\* seen: the fan-out goes to chat 2, which discovery reported
C16_Witness ==
  \E c \in Slots :
    /\ cpc[c] = "n_send"
    /\ manualChatIds = {}
    /\ ~listening
    /\ fanned[c] = {2}
    /\ pending[c] = {2}

\* C17: outside the load, an id enters the sent set only by a step of a cycle
\* whose fan-out is in flight and whose batch holds the id; a cycle that
\* skips sending for want of a chat marks nothing.
C17_MarkedOnlyIfQueued ==
  [][/\ mainPc # "new" =>
          \A r \in sentTweets' \ sentTweets :
            \E c \in Slots : cpc[c] = "n_send" /\ r \in Range(newTweets[c])
     /\ markedUnsent' = {}]_vars

\* C18: no two cycles hold the same record in their batches, and no record is
\* in the dispatched batches of two cycles.
C18_NoSharedCandidate ==
  /\ \A c, d \in Slots : c # d => Range(newTweets[c]) \cap Range(newTweets[d]) = {}
  /\ \A r \in Records : dispatched[r] <= 1

\* the k-th chunk of a sequence cut into runs of batchSize
Chunk(all, k) ==
  SubSeq(all, (k - 1) * batchSize + 1,
         IF k * batchSize < Len(all) THEN k * batchSize ELSE Len(all))

\* C19: while a cycle deletes, its loop stands at the start of a chunk of its
\* targets.  The step that settles its delete call removes either that chunk
\* from the table or nothing, counts the chunk exactly when it was removed,
\* and then stands at the next chunk, whether or not the call failed; after
\* the last chunk the cycle ends.
C19_ChunkedDelete ==
  [][\A c \in Slots :
       cpc[c] = "d_destroy" =>
         LET all == allRecordsToDelete[c]
             k == (delIdx[c] \div batchSize) + 1
             chunk == Chunk(all, k)
             mine == delIdx'[c] # delIdx[c] \/ cpc'[c] # "d_destroy"
         IN /\ delIdx[c] % batchSize = 0
            /\ delIdx[c] < Len(all)
            /\ Len(chunk) \in 1..batchSize
            /\ mine =>
                 /\ store' = store \/ store' = store \ Range(chunk)
                 /\ deletedCount'[c] =
                      deletedCount[c] + (IF store' # store THEN Len(chunk) ELSE 0)
                 /\ IF k * batchSize < Len(all)
                    THEN /\ cpc'[c] = "d_destroy"
                         /\ delIdx'[c] = k * batchSize
                         /\ allRecordsToDelete'[c] = all
                    ELSE cpc'[c] = "idle"]_vars

\* twenty-one targets: the call for the first chunk failed, the second chunk
\* was deleted and counted, and the call for the third chunk is awaited
C19_Witness ==
  \E c \in Slots :
    /\ cpc[c] = "d_destroy"
    /\ Len(allRecordsToDelete[c]) = 2 * batchSize + 1
    /\ delIdx[c] = 2 * batchSize
    /\ deletedCount[c] = batchSize
    /\ Range(Chunk(allRecordsToDelete[c], 1)) \subseteq store
    /\ Range(Chunk(allRecordsToDelete[c], 2)) \cap store = {}
    /\ Range(Chunk(allRecordsToDelete[c], 3)) \subseteq store

\* C20: a send that succeeds or fails without a 403 leaves the registry as it
\* was, and so does a discovery that fails, at start-up or in a cycle; every
\* chat of the registry is among the chats a starting fan-out sends to.
C20_RegistryFrame ==
  [][/\ \A c \in Slots :
          /\ \A chatId \in Chats, outcome \in Outcomes \ {"forbidden"} :
               SendDone(c, chatId, outcome) => chatIds' = chatIds
          /\ \A found \in SUBSET Chats :
               GetUpdatesDone(c, FALSE, found) => chatIds' = chatIds
          /\ (cpc[c] = "n_getUpdates" /\ cpc'[c] = "n_send")
               => chatIds \subseteq pending'[c]
     /\ \A found \in SUBSET Chats :
          InitUpdatesDone(FALSE, found) => chatIds' = chatIds]_vars

\* no listener and no second cycle could add a chat: the send of a fan-out to
\* the chats 1 and 2 has settled for chat 1 without a 403, chat 1 is still in
\* the registry, and the send to chat 2 is in flight
C20_Witness ==
  /\ ~listening
  /\ ~overlapped
  /\ forbiddenSince = {}
  /\ chatIds = {1, 2}
  /\ \E c \in Slots :
       /\ cpc[c] = "n_send"
       /\ fanned[c] = {1, 2}
       /\ pending[c] = {2}

\* C21: a load of a readable file that is not rotated leaves in the set the
\* ids of the entries within the retention window.  It rewrites the file, with
\* one entry per id of that set stamped with the time of the load, exactly
\* when more than half of the file's entries were outside the window;
\* otherwise it leaves the file as it found it.
C21_HalfRule ==
  [][(/\ mainPc = "new" /\ mainPc' = "manual"
      /\ sentTweetsFile.exists /\ sentTweetsFile.parses
      /\ ~(sentTweetsFile.size > RotateMB * MiB))
       => LET es == sentTweetsFile.entries
              expired == {i \in 1..Len(es) : now - es[i].sentAt >= RetentionHours}
              kept == {es[i].recordId : i \in (1..Len(es)) \ expired}
          IN /\ sentTweets' = kept
             /\ IF 2 * Cardinality(expired) > Len(es)
                THEN /\ sentTweetsFile' # sentTweetsFile
                     /\ sentTweetsFile'.exists /\ sentTweetsFile'.parses
                     /\ FileRecordIds(sentTweetsFile') = kept
                     /\ Len(sentTweetsFile'.entries) = Cardinality(kept)
                     /\ \A e \in Range(sentTweetsFile'.entries) : e.sentAt = now
                ELSE sentTweetsFile' = sentTweetsFile]_vars

\* exactly half of the entries had expired: the set holds record 7 alone and
\* the file still holds the entry of record 3, six hours old
C21_Witness ==
  /\ mainPc = "manual"
  /\ sentTweetsFile.entries = <<[recordId |-> 3, sentAt |-> 0 - RetentionHours],
                                [recordId |-> 7, sentAt |-> 0 - (RetentionHours - 1)]>>
  /\ sentTweets = {7}

\* C22: with the configuration present the process never exits with an
\* error, an armed scheduler stays armed, and a cycle in progress returns to
\* idle.
C22_CyclesEnd ==
  /\ [](mainPc # "exit1")
  /\ [][mainPc = "armed" => mainPc' = "armed"]_vars
  /\ \A c \in Slots : (cpc[c] # "idle") ~> (cpc[c] = "idle")

\* the start-up cycle has ended and the scheduler is armed although nothing
\* was sent, marked or deleted: its fetches or its calls failed
C22_Witness ==
  /\ mainPc = "armed"
  /\ \A c \in Slots : cpc[c] = "idle"
  /\ token
  /\ store = 1..3
  /\ sentTweets = {}
  /\ sentTweetsFile = NoFile

\* C23: until the scheduler is armed, the only cycle is the start-up cycle in
\* slot 1, begun by the step that loads the sent set; the scheduler is armed by
\* the step in which the delete stage of that cycle ends; a cycle begins
\* either in the loading step or with the scheduler armed; and a fetch of the
\* notify stage settles only after the load, its batch holding no loaded id.
C23_StartupCycleFirst ==
  /\ [](/\ mainPc = "new" => \A c \in Slots : cpc[c] = "idle"
        /\ mainPc = "manual" => cpc[1] # "idle" /\ \A c \in Slots \ {1} : cpc[c] = "idle"
        /\ \A c \in Slots : cpc[c] # "idle" => mainPc \in {"manual", "armed"})
  /\ [][/\ (mainPc # "armed" /\ mainPc' = "armed")
            => /\ mainPc = "manual"
               /\ cpc[1] \in {"d_select", "d_destroy"}
               /\ cpc'[1] = "idle"
        /\ \A c \in Slots :
             /\ (cpc[c] = "idle" /\ cpc'[c] # "idle")
                  => \/ mainPc = "armed"
                     \/ /\ mainPc = "new" /\ c = 1
                        /\ sentTweets' = loaded'
                        /\ cpc'[c] = IF token THEN "n_select" ELSE "d_select"
             /\ (cpc[c] = "n_select" /\ cpc'[c] # "n_select")
                  => Range(newTweets'[c]) \cap loaded = {}]_vars

\* the start-up cycle, which loaded record 3 and marked record 7, is deleting;
\* the scheduler is not armed and no other cycle has begun
C23_Witness ==
  /\ mainPc = "manual"
  /\ cpc[1] = "d_destroy"
  /\ loaded = {3}
  /\ sentTweets = {3, 7}
  /\ \A c \in Slots \ {1} : cpc[c] = "idle"

NotifyStage == {"n_select", "n_getUpdates", "n_send"}
DeleteStage == {"d_select", "d_destroy"}

\* C24: a cycle begins with the notify stage, or with the delete stage when
\* there is no Telegram service; the notify stage is left only for the delete
\* stage, after its sends have settled and its batch, if any, is in the sent
\* set and in the file; and a cycle ends only from its delete stage.
C24_DeleteAfterNotify ==
  [][\A c \in Slots :
       /\ (cpc[c] = "idle" /\ cpc'[c] # "idle")
            => cpc'[c] = IF token THEN "n_select" ELSE "d_select"
       /\ cpc[c] \in NotifyStage => cpc'[c] \in NotifyStage \cup {"d_select"}
       /\ (cpc[c] \in NotifyStage /\ cpc'[c] = "d_select")
            => /\ pending'[c] = {}
               /\ newTweets'[c] = <<>>
               /\ Range(newTweets[c]) \subseteq sentTweets'
               /\ newTweets[c] # <<>>
                    => Range(newTweets[c]) \subseteq FileRecordIds(sentTweetsFile')
       /\ cpc[c] \in DeleteStage => cpc'[c] \in DeleteStage \cup {"idle"}
       /\ (cpc[c] # "idle" /\ cpc'[c] = "idle") => cpc[c] \in DeleteStage]_vars

\* every send of the only fan-out returned 403, to chat 1 and to chat 2; the
\* batch was marked all the same and the cycle is deleting
C24_Witness ==
  /\ ~overlapped
  /\ forbiddenSince = {1, 2}
  /\ chatIds = {}
  /\ dispatched[3] = 1
  /\ 3 \in sentTweets \ (loaded \cup markedUnsent)
  /\ \E c \in Slots : cpc[c] = "d_destroy"

\* C25: a chat leaves the registry only in the step in which a send to that
\* chat settles with a 403, and that step removes nothing else; the seeding of
\* the constructor, a discovery and a live event remove nothing and add only
\* the chats they name; when those chats are all known the registry, and its
\* size, stay as they were.
C25_RemovedOnlyByForbidden ==
  [][/\ \A chatId \in chatIds \ chatIds' :
          /\ \E c \in Slots : SendDone(c, chatId, "forbidden")
          /\ chatIds' = chatIds \ {chatId}
     /\ (mainPc = "new" /\ mainPc' = "manual")
          => chatIds = {} /\ chatIds' \subseteq manualChatIds
     /\ \A chatId \in Chats :
          LiveEvent(chatId)
            => /\ chatIds \subseteq chatIds' /\ chatIds' \subseteq chatIds \cup {chatId}
               /\ chatId \in chatIds
                    => chatIds' = chatIds /\ Cardinality(chatIds') = Cardinality(chatIds)
     /\ \A ok \in BOOLEAN, found \in SUBSET Chats :
          (InitUpdatesDone(ok, found) \/ \E c \in Slots : GetUpdatesDone(c, ok, found))
            => /\ chatIds \subseteq chatIds' /\ chatIds' \subseteq chatIds \cup found
               /\ found \subseteq chatIds
                    => chatIds' = chatIds /\ Cardinality(chatIds') = Cardinality(chatIds)]_vars

\* nothing was seeded; the chats 1 and 2 were added by a discovery or by live
\* events; the send to chat 2 returned 403 and chat 2 is gone, while the send
\* to chat 1 of the same fan-out is still in flight and chat 1 is still known
C25_Witness ==
  /\ token /\ manualChatIds = {}
  /\ chatIds = {1}
  /\ forbiddenSince = {2}
  /\ \E c \in Slots : cpc[c] = "n_send" /\ pending[c] = {1} /\ fanned[c] = {1, 2}

====
